---- MODULE Spec2Model ----
(***************************************************************************)
(* Course Splitter (coursplit): the availability-matching engine of        *)
(* src/backend.py as driven by src/app.py, together with the earlier copy  *)
(* of the same engine kept in src/backend/app/core (ProcessData.py and     *)
(* SplitSection.py).                                                       *)
(*                                                                         *)
(* Representation.                                                         *)
(*   - A roster (pandas DataFrame after cleanExcel) is a sequence of rows; *)
(*     a row is a record with the columns id, crs_cde, M, T, W, R, F,      *)
(*     begin_time, end_time.  Every cell is a string after cleaning.       *)
(*   - A schedule (the JSON catalog) is a record [blocks |-> sequence of   *)
(*     blocks]; a block has slot, days, start_time, end_time.              *)
(*   - A time cell is the sequence of its colon-separated numeric fields:  *)
(*     "09:00" is <<9, 0>>, "09:00:00" is <<9, 0, 0>>, "" is << >>,        *)
(*     "25:00" is <<25, 0>>, "9" is <<9>>.  parseTime turns it into the    *)
(*     wall-clock time, counted in seconds after midnight, or raises.      *)
(*   - A Python dict is the sequence of its <<key, value>> items in        *)
(*     insertion order.                                                    *)
(*   - The outcome of a call is [tag |-> "ok", val |-> v] for a returned   *)
(*     value, [tag |-> "None"] for a returned None, and [tag |-> kind] for *)
(*     a raised ValueError, kind naming the raise site:                    *)
(*       FormatError          parseTime / courseOverlapSlot                *)
(*       NotFoundError        getStudentsInSection, getCourseSlot          *)
(*       NoCandidatesError    findNewSection                               *)
(*       ThresholdNotMetError proposeSections                              *)
(*     The wrappers re-raise ValueError with the inner message appended,   *)
(*     so the kind of the innermost raise is what the caller sees.         *)
(***************************************************************************)
EXTENDS Integers, Sequences, FiniteSets, TLC

VARIABLES df_courses, schedule, last

vars == <<df_courses, schedule, last>>

(***************************************************************************)
(* Bounds of the explored inputs.                                          *)
(***************************************************************************)
MaxRows == 2

MaxMinStudents == 2

MaxListLen == 2

(***************************************************************************)
(* Outcomes of calls.                                                      *)
(***************************************************************************)
Return(v) == [tag |-> "ok", val |-> v]

ReturnNone == [tag |-> "None", val |-> << >>]

Raise(kind) == [tag |-> kind, val |-> << >>]

Ok(o) == o.tag = "ok"

(***************************************************************************)
(* Python string order (by code point), for the strings of the model.      *)
(***************************************************************************)
CodePoints(s) ==
    CASE s = ""     -> << >>
      [] s = "A"    -> <<65>>
      [] s = "B"    -> <<66>>
      [] s = "C"    -> <<67>>
      [] s = "X 01" -> <<88, 32, 48, 49>>
      [] s = "Y 01" -> <<89, 32, 48, 49>>

RECURSIVE LexLess(_, _)
LexLess(a, b) ==
    IF b = << >> THEN FALSE
    ELSE IF a = << >> THEN TRUE
    ELSE IF Head(a) # Head(b) THEN Head(a) < Head(b)
    ELSE LexLess(Tail(a), Tail(b))

StrLess(a, b) == LexLess(CodePoints(a), CodePoints(b))

Range(s) == {s[i] : i \in DOMAIN s}

\* sorted(xs) for a list of strings: ascending, stable insertion.
RECURSIVE InsertStr(_, _)
InsertStr(x, sorted) ==
    IF sorted = << >> THEN <<x>>
    ELSE IF StrLess(x, Head(sorted)) THEN <<x>> \o sorted
    ELSE <<Head(sorted)>> \o InsertStr(x, Tail(sorted))

RECURSIVE SortedStr(_)
SortedStr(xs) ==
    IF xs = << >> THEN << >>
    ELSE InsertStr(xs[Len(xs)], SortedStr(SubSeq(xs, 1, Len(xs) - 1)))

\* sorted(list(S)) for a set of strings.
RECURSIVE SortedSet(_)
SortedSet(S) ==
    IF S = {} THEN << >>
    ELSE LET x == CHOOSE y \in S : TRUE
         IN  InsertStr(x, SortedSet(S \ {x}))

\* pandas Series.unique(): the distinct values in order of first appearance.
RECURSIVE Unique(_)
Unique(xs) ==
    IF xs = << >> THEN << >>
    ELSE LET init == Unique(SubSeq(xs, 1, Len(xs) - 1))
             x    == xs[Len(xs)]
         IN  IF x \in Range(init) THEN init ELSE Append(init, x)

Column(df, col) == [i \in DOMAIN df |-> df[i][col]]

(***************************************************************************)
(* Time & overlap utilities (src/backend.py).                              *)
(***************************************************************************)
FieldsInRange(t) ==
    /\ t[1] \in 0..23
    /\ t[2] \in 0..59
    /\ Len(t) = 3 => t[3] \in 0..59

\* strptime '%H:%M:%S' first, then '%H:%M'; anything else raises ValueError.
parseTime(time_str) ==
    IF Len(time_str) = 3 /\ FieldsInRange(time_str)
    THEN Return(time_str[1] * 3600 + time_str[2] * 60 + time_str[3])
    ELSE IF Len(time_str) = 2 /\ FieldsInRange(time_str)
    THEN Return(time_str[1] * 3600 + time_str[2] * 60)
    ELSE Raise("FormatError")

\* bool(datetime.time): every time object is true (Python >= 3.5).
TimeTruthy(t) == TRUE

CourseDays(course_row) ==
    (IF course_row.M # "" THEN {"Monday"} ELSE {})
    \cup (IF course_row.T # "" THEN {"Tuesday"} ELSE {})
    \cup (IF course_row.W # "" THEN {"Wednesday"} ELSE {})
    \cup (IF course_row.R # "" THEN {"Thursday"} ELSE {})
    \cup (IF course_row.F # "" THEN {"Friday"} ELSE {})

\* courseOverlapSlot with the two comparisons made strict.
courseOverlapSlot_strict(course_row, slot) ==
    IF CourseDays(course_row) \cap slot.days = {} THEN Return(FALSE)
    ELSE LET course_start == parseTime(course_row.begin_time)
             course_end   == parseTime(course_row.end_time)
             slot_start   == parseTime(slot.start_time)
             slot_end     == parseTime(slot.end_time)
         IN  IF ~(Ok(course_start) /\ Ok(course_end) /\ Ok(slot_start) /\ Ok(slot_end))
             THEN Raise("FormatError")
             ELSE Return(course_start.val < slot_end.val /\ course_end.val > slot_start.val)

courseOverlapSlot(course_row, slot) ==
    IF CourseDays(course_row) \cap slot.days = {} THEN Return(FALSE)
    ELSE LET course_start == parseTime(course_row.begin_time)
             course_end   == parseTime(course_row.end_time)
             slot_start   == parseTime(slot.start_time)
             slot_end     == parseTime(slot.end_time)
         IN  IF ~(Ok(course_start) /\ Ok(course_end) /\ Ok(slot_start) /\ Ok(slot_end))
             THEN Raise("FormatError")
             ELSE IF ~(/\ TimeTruthy(course_start.val) /\ TimeTruthy(course_end.val)
                       /\ TimeTruthy(slot_start.val) /\ TimeTruthy(slot_end.val))
             THEN Return(FALSE)
             ELSE Return(course_start.val <= slot_end.val /\ course_end.val >= slot_start.val)

\* The (row, block) pairs getBusySlots evaluates: rows with both time cells filled.
BusyPairs(courses_df, sched) ==
    {p \in (DOMAIN courses_df) \X (DOMAIN sched.blocks) :
        courses_df[p[1]].begin_time # << >> /\ courses_df[p[1]].end_time # << >>}

getBusySlots(courses_df, sched) ==
    LET pairs == BusyPairs(courses_df, sched)
        ov(p) == courseOverlapSlot(courses_df[p[1]], sched.blocks[p[2]])
    IN  IF \E p \in pairs : ~Ok(ov(p)) THEN Raise("FormatError")
        ELSE Return(SortedSet({sched.blocks[p[2]].slot : p \in {q \in pairs : ov(q).val}}))

\* getAllSlots without the sort: the labels in file order.
getAllSlots_unsorted(sched) == Column(sched.blocks, "slot")

getAllSlots(sched) == SortedStr(Column(sched.blocks, "slot"))


\* First block of the catalog, in file order, that overlaps the first row of the course.
RECURSIVE FirstOverlap(_, _, _)
FirstOverlap(course_row, blocks, target_course_code) ==
    IF blocks = << >> THEN Raise("NotFoundError")
    ELSE LET o == courseOverlapSlot(course_row, Head(blocks))
         IN  IF ~Ok(o) THEN o
             ELSE IF o.val THEN Return(Head(blocks).slot)
             ELSE FirstOverlap(course_row, Tail(blocks), target_course_code)

\* getCourseSlot returning the first block of the catalog without the overlap test.
getCourseSlot_firstBlock(df, sched, target_course_code) ==
    LET course_rows == SelectSeq(df, LAMBDA r : r.crs_cde = target_course_code)
    IN  IF course_rows = << >> \/ sched.blocks = << >> THEN Raise("NotFoundError")
        ELSE Return(sched.blocks[1].slot)

getCourseSlot(df, sched, target_course_code) ==
    LET course_rows == SelectSeq(df, LAMBDA r : r.crs_cde = target_course_code)
    IN  IF course_rows = << >> THEN Raise("NotFoundError")
        ELSE FirstOverlap(course_rows[1], sched.blocks, target_course_code)

(***************************************************************************)
(* Availability engine (src/backend.py).                                   *)
(***************************************************************************)
getStudentsInSection(df, target_course_code) ==
    LET students_in_section == SelectSeq(df, LAMBDA r : r.crs_cde = target_course_code)
    IN  IF students_in_section = << >> THEN Raise("NotFoundError")
        ELSE Return(Unique(Column(students_in_section, "id")))

\* The offered courses: the distinct course codes of the roster, ascending.
getCourses(df) == Return(SortedStr(Unique(Column(df, "crs_cde"))))

\* df_courses[df_courses['id'] == student_id]
StudentCourses(df, student_id) == SelectSeq(df, LAMBDA r : r.id = student_id)

\* The local student_busy_slots of getAvailability: one item per enrolled student.
StudentBusySlots(df, sched, original_student_ids) ==
    [i \in DOMAIN original_student_ids |->
        <<original_student_ids[i],
          getBusySlots(StudentCourses(df, original_student_ids[i]), sched)>>]

\* getAvailability looking only at the student's row of the target course.
getAvailability_targetOnly(df, sched, target_course_code) ==
    LET ids == getStudentsInSection(df, target_course_code)
        section == SelectSeq(df, LAMBDA r : r.crs_cde = target_course_code)
    IN  IF ~Ok(ids) THEN Raise(ids.tag)
        ELSE LET all_slots == getAllSlots(sched)
                 student_busy_slots == StudentBusySlots(section, sched, ids.val)
             IN  IF \E i \in DOMAIN student_busy_slots : ~Ok(student_busy_slots[i][2])
                 THEN Raise("FormatError")
                 ELSE Return([i \in DOMAIN student_busy_slots |->
                        <<student_busy_slots[i][1],
                          SelectSeq(all_slots,
                              LAMBDA slot : slot \notin Range(student_busy_slots[i][2].val))>>])

getAvailability(df, sched, target_course_code) ==
    LET ids == getStudentsInSection(df, target_course_code)
    IN  IF ~Ok(ids) THEN Raise(ids.tag)
        ELSE LET all_slots == getAllSlots(sched)
                 student_busy_slots == StudentBusySlots(df, sched, ids.val)
             IN  IF \E i \in DOMAIN student_busy_slots : ~Ok(student_busy_slots[i][2])
                 THEN Raise("FormatError")
                 ELSE Return([i \in DOMAIN student_busy_slots |->
                        <<student_busy_slots[i][1],
                          SelectSeq(all_slots,
                              LAMBDA slot : slot \notin Range(student_busy_slots[i][2].val))>>])

\* potential_new_sections[slot].append(student_id) on a defaultdict(list).
\* DictAppend putting the new value at the front of the list.
DictAppend_prepend(d, key, v) ==
    IF \E i \in DOMAIN d : d[i][1] = key
    THEN [i \in DOMAIN d |-> IF d[i][1] = key THEN <<key, <<v>> \o d[i][2]>> ELSE d[i]]
    ELSE Append(d, <<key, <<v>>>>)

DictAppend(d, key, v) ==
    IF \E i \in DOMAIN d : d[i][1] = key
    THEN [i \in DOMAIN d |-> IF d[i][1] = key THEN <<key, Append(d[i][2], v)>> ELSE d[i]]
    ELSE Append(d, <<key, <<v>>>>)

RECURSIVE AddStudentSlots(_, _, _)
AddStudentSlots(d, student_id, available_slots) ==
    IF available_slots = << >> THEN d
    ELSE LET slot == Head(available_slots)
         IN  AddStudentSlots(IF slot # "" THEN DictAppend(d, slot, student_id) ELSE d,
                             student_id, Tail(available_slots))

RECURSIVE PotentialNewSections(_, _)
PotentialNewSections(d, student_available_slots) ==
    IF student_available_slots = << >> THEN d
    ELSE PotentialNewSections(
            AddStudentSlots(d, Head(student_available_slots)[1], Head(student_available_slots)[2]),
            Tail(student_available_slots))

\* sorted(items, key=lambda item: len(item[1]), reverse=True): stable, so items
\* with equal counts keep the order they have in the dict.
RECURSIVE InsertByCount(_, _)
InsertByCount(item, sorted) ==
    IF sorted = << >> THEN <<item>>
    ELSE IF Len(item[2]) > Len(Head(sorted)[2]) THEN <<item>> \o sorted
    ELSE <<Head(sorted)>> \o InsertByCount(item, Tail(sorted))

RECURSIVE SortedByCount(_)
SortedByCount(items) ==
    IF items = << >> THEN << >>
    ELSE InsertByCount(items[Len(items)], SortedByCount(SubSeq(items, 1, Len(items) - 1)))

findNewSection(df, sched, target_course_code) ==
    LET student_available_slots == getAvailability(df, sched, target_course_code)
    IN  IF ~Ok(student_available_slots) THEN Raise(student_available_slots.tag)
        ELSE LET potential_new_sections ==
                     PotentialNewSections(<< >>, student_available_slots.val)
             IN  IF potential_new_sections = << >> THEN Raise("NoCandidatesError")
                 ELSE Return(SortedByCount(potential_new_sections))

\* suggested_slots[slot] = students on a dict.
DictSet(d, key, v) ==
    IF \E i \in DOMAIN d : d[i][1] = key
    THEN [i \in DOMAIN d |-> IF d[i][1] = key THEN <<key, v>> ELSE d[i]]
    ELSE Append(d, <<key, v>>)

\* SuggestedSlots keeping only the slots with more than min_students students.
RECURSIVE SuggestedSlots_strict(_, _, _)
SuggestedSlots_strict(d, potential_sections, min_students) ==
    IF potential_sections = << >> THEN d
    ELSE LET slot     == Head(potential_sections)[1]
             students == Head(potential_sections)[2]
         IN  SuggestedSlots_strict(
                IF Len(students) > min_students THEN DictSet(d, slot, students) ELSE d,
                Tail(potential_sections), min_students)

RECURSIVE SuggestedSlots(_, _, _)
SuggestedSlots(d, potential_sections, min_students) ==
    IF potential_sections = << >> THEN d
    ELSE LET slot     == Head(potential_sections)[1]
             students == Head(potential_sections)[2]
         IN  SuggestedSlots(IF Len(students) >= min_students THEN DictSet(d, slot, students) ELSE d,
                            Tail(potential_sections), min_students)

\* readData loads the same two files again; the model passes the loaded data.
proposeSections(df, sched, target_course_code, min_students) ==
    LET potential_sections == findNewSection(df, sched, target_course_code)
    IN  IF ~Ok(potential_sections) THEN Raise(potential_sections.tag)
        ELSE LET suggested_slots == SuggestedSlots(<< >>, potential_sections.val, min_students)
             IN  IF suggested_slots = << >> THEN Raise("ThresholdNotMetError")
                 ELSE Return(suggested_slots)

(***************************************************************************)
(* Section-split planner (src/backend.py, src/app.py).                     *)
(***************************************************************************)
\* proposeShifts returning the students of the first slot, whichever is selected.
proposeShifts_first(suggested_slots, selected_slot) ==
    IF suggested_slots = << >> THEN << >> ELSE Head(suggested_slots)[2]

RECURSIVE proposeShifts(_, _)
proposeShifts(suggested_slots, selected_slot) ==
    IF suggested_slots = << >> THEN << >>
    ELSE IF Head(suggested_slots)[1] = selected_slot THEN Head(suggested_slots)[2]
    ELSE proposeShifts(Tail(suggested_slots), selected_slot)

\* The comprehension with its test inverted: the students that are shifted.
RemainingStudents_inverted(original_students, students_to_shift) ==
    SelectSeq(original_students, LAMBDA student : student \in Range(students_to_shift))

\* [student for student in original_students if student not in students_to_shift]
RemainingStudents(original_students, students_to_shift) ==
    SelectSeq(original_students, LAMBDA student : student \notin Range(students_to_shift))


(***************************************************************************)
(* The earlier copy of the engine (src/backend/app/core): the same code    *)
(* with print-and-return in place of raise.  Its id column is named        *)
(* modified_id; the model keeps it in the field id.                        *)
(***************************************************************************)
courseOverlapSlot_core(course_row, slot) ==
    IF CourseDays(course_row) \cap slot.days = {} THEN Return(FALSE)
    ELSE LET course_start == parseTime(course_row.begin_time)
             course_end   == parseTime(course_row.end_time)
             slot_start   == parseTime(slot.start_time)
             slot_end     == parseTime(slot.end_time)
         IN  IF ~(Ok(course_start) /\ Ok(course_end) /\ Ok(slot_start) /\ Ok(slot_end))
             THEN Return(FALSE)
             ELSE IF ~(/\ TimeTruthy(course_start.val) /\ TimeTruthy(course_end.val)
                       /\ TimeTruthy(slot_start.val) /\ TimeTruthy(slot_end.val))
             THEN Return(FALSE)
             ELSE Return(course_start.val <= slot_end.val /\ course_end.val >= slot_start.val)

getBusySlots_core(courses_df, sched) ==
    LET pairs == BusyPairs(courses_df, sched)
        ov(p) == courseOverlapSlot_core(courses_df[p[1]], sched.blocks[p[2]])
    IN  Return(SortedSet({sched.blocks[p[2]].slot : p \in {q \in pairs : ov(q).val}}))

\* Prints when the section is empty and goes on with no student.
getStudentsInSection_core(df, target_course_code) ==
    LET students_in_section == SelectSeq(df, LAMBDA r : r.crs_cde = target_course_code)
    IN  Return(Unique(Column(students_in_section, "id")))

getAvailability_core(df, sched, target_course_code) ==
    LET ids == getStudentsInSection_core(df, target_course_code)
        all_slots == getAllSlots(sched)
        busy(i) == getBusySlots_core(StudentCourses(df, ids.val[i]), sched)
    IN  Return([i \in DOMAIN ids.val |->
            <<ids.val[i], SelectSeq(all_slots, LAMBDA slot : slot \notin Range(busy(i).val))>>])

findNewSection_core(df, sched, target_course_code) ==
    LET student_available_slots == getAvailability_core(df, sched, target_course_code)
        potential_new_sections == PotentialNewSections(<< >>, student_available_slots.val)
    IN  IF potential_new_sections = << >> THEN ReturnNone
        ELSE Return(SortedByCount(potential_new_sections))

(***************************************************************************)
(* Explored inputs.                                                        *)
(***************************************************************************)
Students == {"s1", "s2"}

Courses == {"X 01", "Y 01"}

\* Meeting patterns of a roster row: day flags and the two time cells.
Meeting(flags, b, e) ==
    [M |-> IF "M" \in flags THEN "M" ELSE "", T |-> IF "T" \in flags THEN "T" ELSE "",
     W |-> IF "W" \in flags THEN "W" ELSE "", R |-> IF "R" \in flags THEN "R" ELSE "",
     F |-> IF "F" \in flags THEN "F" ELSE "", begin_time |-> b, end_time |-> e]

Meetings ==
    { Meeting({"M", "W"}, <<9, 0, 0>>, <<9, 50, 0>>),   \* Mon/Wed 09:00:00-09:50:00
      Meeting({"T", "R"}, <<9, 0>>, <<9, 50>>),         \* Tue/Thu 09:00-09:50
      Meeting({}, <<9, 0>>, <<9, 50>>),                 \* no weekday flag
      Meeting({"M", "W"}, << >>, <<9, 50>>),            \* begin time missing
      Meeting({"M", "W"}, <<25, 0>>, <<9, 50>>) }       \* begin time "25:00"

Row(id, crs_cde, m) ==
    [id |-> id, crs_cde |-> crs_cde, M |-> m.M, T |-> m.T, W |-> m.W, R |-> m.R, F |-> m.F,
     begin_time |-> m.begin_time, end_time |-> m.end_time]

\* A second course of student s1, beside the section being split.
OtherMeetings ==
    { Meeting({"T", "R"}, <<9, 0>>, <<9, 50>>),
      Meeting({"M", "W"}, <<25, 0>>, <<9, 50>>) }

Rows ==
    {Row(id, "X 01", m) : id \in Students, m \in Meetings}
    \cup {Row("s1", "Y 01", m) : m \in OtherMeetings}

\* cleanExcel/readData reject an empty table, so a loaded roster has a row.
Rosters == UNION {[1..n -> Rows] : n \in 1..MaxRows}

Block(slot, days, b, e) == [slot |-> slot, days |-> days, start_time |-> b, end_time |-> e]

Blocks ==
    { Block("A", {"Monday", "Wednesday"}, <<9, 0>>, <<9, 50>>),
      Block("B", {"Tuesday", "Thursday"}, <<9, 0>>, <<9, 50>>),
      Block("", {"Friday"}, <<9, 0>>, <<9, 50>>) }

\* Catalogs: the blocks in any file order, slot labels unique.
Catalogs ==
    {[blocks |-> bs] : bs \in
        {q \in UNION {[1..n -> Blocks] : n \in 0..Cardinality(Blocks)} :
            \A i, j \in DOMAIN q : i # j => q[i].slot # q[j].slot}}

(***************************************************************************)
(* The session of src/app.py.  Every run of the script takes the loaded    *)
(* data (load_data) and calls the engine on it; no call reads the outcome  *)
(* of another, except the slot selection, which reads the mapping that     *)
(* proposeSections returned.  last records the latest call and its         *)
(* outcome; a rerun of the script starts again from the loaded data.       *)
(***************************************************************************)
Loaded == last.op = "readData"

Init ==
    /\ df_courses \in Rosters
    /\ schedule \in Catalogs
    /\ last = [op |-> "readData"]

GetCourses ==
    /\ Loaded
    /\ last' = [op |-> "getCourses", out |-> getCourses(df_courses)]
    /\ UNCHANGED <<df_courses, schedule>>

GetStudentsInSection(c) ==
    /\ Loaded
    /\ last' = [op |-> "getStudentsInSection", course |-> c,
                out |-> getStudentsInSection(df_courses, c)]
    /\ UNCHANGED <<df_courses, schedule>>

\* getCourseSlot keeping its row filter in the loaded frame.
GetCourseSlot_filtering(c) ==
    /\ Loaded
    /\ last' = [op |-> "getCourseSlot", course |-> c,
                out |-> getCourseSlot(df_courses, schedule, c)]
    /\ df_courses' = SelectSeq(df_courses, LAMBDA r : r.crs_cde = c)
    /\ UNCHANGED schedule

GetCourseSlot(c) ==
    /\ Loaded
    /\ last' = [op |-> "getCourseSlot", course |-> c,
                out |-> getCourseSlot(df_courses, schedule, c)]
    /\ UNCHANGED <<df_courses, schedule>>

\* getAvailability, with its local student_busy_slots as it stands at the return.
GetAvailability(c) ==
    /\ Loaded
    /\ last' = [op |-> "getAvailability", course |-> c,
                busy |-> LET ids == getStudentsInSection(df_courses, c)
                         IN  IF Ok(ids) THEN StudentBusySlots(df_courses, schedule, ids.val)
                             ELSE << >>,
                out |-> getAvailability(df_courses, schedule, c)]
    /\ UNCHANGED <<df_courses, schedule>>

FindNewSection(c) ==
    /\ Loaded
    /\ last' = [op |-> "findNewSection", course |-> c,
                out |-> findNewSection(df_courses, schedule, c)]
    /\ UNCHANGED <<df_courses, schedule>>

FindNewSection_core(c) ==
    /\ Loaded
    /\ last' = [op |-> "findNewSection_core", course |-> c,
                out |-> findNewSection_core(df_courses, schedule, c)]
    /\ UNCHANGED <<df_courses, schedule>>

ProposeSections(c, min_students) ==
    /\ Loaded
    /\ last' = [op |-> "proposeSections", course |-> c, min_students |-> min_students,
                out |-> proposeSections(df_courses, schedule, c, min_students)]
    /\ UNCHANGED <<df_courses, schedule>>

\* app.py lines 101-111: the students of the selected slot, and the split when
\* there are any (the warning of line 129 otherwise).
Shift(suggested_slots, selected_slot, original_students) ==
    /\ LET students_to_shift == proposeShifts(suggested_slots, selected_slot)
       IN  last' = [op |-> "proposeShifts", suggested_slots |-> suggested_slots,
                    selected_slot |-> selected_slot, original_students |-> original_students,
                    students_to_shift |-> students_to_shift,
                    out |-> IF students_to_shift # << >>
                            THEN Return([remaining |-> RemainingStudents(original_students,
                                                                         students_to_shift),
                                         shifted |-> students_to_shift])
                            ELSE ReturnNone]
    /\ UNCHANGED <<df_courses, schedule>>

\* The slot is picked among the keys of the mapping proposeSections returned.
SelectSlot ==
    /\ last.op = "proposeSections"
    /\ Ok(last.out)
    /\ \E i \in DOMAIN last.out.val :
          Shift(last.out.val, last.out.val[i][1],
                getStudentsInSection(df_courses, last.course).val)

\* The script runs again, on the same (cached) loaded data.
Rerun ==
    /\ ~Loaded
    /\ last' = [op |-> "readData"]
    /\ UNCHANGED <<df_courses, schedule>>

Next ==
    \/ GetCourses
    \/ \E c \in Courses : GetStudentsInSection(c)
    \/ \E c \in Courses : GetCourseSlot(c)
    \/ \E c \in Courses : GetAvailability(c)
    \/ \E c \in Courses : FindNewSection(c)
    \/ \E c \in Courses : FindNewSection_core(c)
    \/ \E c \in Courses, m \in 1..MaxMinStudents : ProposeSections(c, m)
    \/ SelectSlot
    \/ Rerun

Spec == Init /\ [][Next]_vars

(***************************************************************************)
(* The overlap test on its own: one roster row against one block.          *)
(***************************************************************************)
TimeCells == {<< >>, <<9>>, <<25, 0>>, <<9, 0>>, <<9, 0, 0>>, <<9, 50>>, <<10, 40, 0>>}

FlagSets == {{}, {"M", "W"}, {"T", "R"}, {"M", "T", "W", "R", "F"}}

OverlapRows ==
    {Row("s1", "X 01", Meeting(f, b, e)) : f \in FlagSets, b \in TimeCells, e \in TimeCells}

OverlapBlocks ==
    Blocks \cup { Block("C", {"Monday", "Wednesday"}, <<9, 50>>, <<10, 40>>),
                  Block("C", {"Monday", "Wednesday", "Friday"}, <<8, 0, 0>>, <<9, 0, 0>>) }

\* The end-to-end scenario of the specification: S1 Mon/Wed, S2 Tue/Thu, one
\* course meeting Mon/Wed.
ScenarioRoster ==
    [i \in 1..2 |-> Row(IF i = 1 THEN "s1" ELSE "s2", "X 01",
                        Meeting({"M", "W"}, <<9, 0>>, <<9, 50>>))]

ScenarioCatalog ==
    [blocks |-> << Block("A", {"Monday", "Wednesday"}, <<9, 0>>, <<9, 50>>),
                   Block("B", {"Tuesday", "Thursday"}, <<9, 0>>, <<9, 50>>) >>]

InitScenario ==
    /\ df_courses = ScenarioRoster
    /\ schedule = ScenarioCatalog
    /\ last = [op |-> "readData"]

CourseOverlapSlot(course_row, slot) ==
    /\ last' = [op |-> "courseOverlapSlot", course_row |-> course_row, slot |-> slot,
                out |-> courseOverlapSlot(course_row, slot)]
    /\ UNCHANGED <<df_courses, schedule>>

NextOverlap ==
    \/ /\ Loaded
       /\ \E course_row \in OverlapRows, slot \in OverlapBlocks :
             CourseOverlapSlot(course_row, slot)
    \/ Rerun

SpecOverlap == InitScenario /\ [][NextOverlap]_vars

(***************************************************************************)
(* The planner on its own: any candidate mapping, slot and section list.   *)
(***************************************************************************)
StudentIds == {"s1", "s2", "s3"}

SlotLabels == {"A", "B", "C"}

\* Student lists of up to MaxListLen ids.
StudentLists == UNION {[1..n -> StudentIds] : n \in 1..MaxListLen}

\* getStudentsInSection returns distinct ids.
SectionLists ==
    {q \in UNION {[1..n -> StudentIds] : n \in 1..Cardinality(StudentIds)} :
        \A i, j \in DOMAIN q : i # j => q[i] # q[j]}

\* Candidate mappings: dicts of up to two slots, keys distinct.
CandidateMaps ==
    {q \in UNION {[1..n -> {"A", "B"} \X StudentLists] : n \in 0..2} :
        \A i, j \in DOMAIN q : i # j => q[i][1] # q[j][1]}

PlanShift(suggested_slots, selected_slot, original_students) ==
    /\ Shift(suggested_slots, selected_slot, original_students)

NextPlanner ==
    \/ /\ Loaded
       /\ \E suggested_slots \in CandidateMaps, selected_slot \in SlotLabels,
             original_students \in SectionLists :
             PlanShift(suggested_slots, selected_slot, original_students)
    \/ Rerun

SpecPlanner == InitScenario /\ [][NextPlanner]_vars


(***************************************************************************)
(* Vocabulary of the properties, stated on the data and not through the    *)
(* engine's functions.                                                     *)
(***************************************************************************)
WellFormedTime(t) ==
    /\ Len(t) \in 2..3
    /\ t[1] \in 0..23
    /\ t[2] \in 0..59
    /\ Len(t) = 3 => t[3] \in 0..59

\* A time cell that is filled in but is no HH:MM or HH:MM:SS time.
MalformedTime(t) == t # << >> /\ ~WellFormedTime(t)

ClockTime(t) == t[1] * 3600 + t[2] * 60 + (IF Len(t) = 3 THEN t[3] ELSE 0)

FlagColumn == [Monday |-> "M", Tuesday |-> "T", Wednesday |-> "W", Thursday |-> "R", Friday |-> "F"]

MeetingDays(row) == {d \in DOMAIN FlagColumn : row[FlagColumn[d]] # ""}

TimesWellFormed(row, slot) ==
    /\ WellFormedTime(row.begin_time) /\ WellFormedTime(row.end_time)
    /\ WellFormedTime(slot.start_time) /\ WellFormedTime(slot.end_time)

\* overlaps(meeting, slot) of the specification; a meeting without a proper
\* begin and end time overlaps nothing.
Overlaps(row, slot) ==
    /\ MeetingDays(row) \cap slot.days # {}
    /\ TimesWellFormed(row, slot)
    /\ ClockTime(row.begin_time) <= ClockTime(slot.end_time)
    /\ ClockTime(row.end_time) >= ClockTime(slot.start_time)

HasRow(s, c) == \E i \in DOMAIN df_courses : df_courses[i].id = s /\ df_courses[i].crs_cde = c

Enrolled(c) == {s \in Students : HasRow(s, c)}

\* No meeting of student s, in any course, overlaps the block.
FreeFor(s, block) ==
    ~\E i \in DOMAIN df_courses : df_courses[i].id = s /\ Overlaps(df_courses[i], block)

Listed(ranking, s, k) == \E e \in Range(ranking) : e[1] = k /\ s \in Range(e[2])

CatalogLabels == {schedule.blocks[j].slot : j \in DOMAIN schedule.blocks}

\* Some row of a student enrolled in course c has a malformed time cell.
MalformedRowIn(c) ==
    \E i \in DOMAIN df_courses :
        /\ HasRow(df_courses[i].id, c)
        /\ MalformedTime(df_courses[i].begin_time) \/ MalformedTime(df_courses[i].end_time)

\* Where x stands in a list without repetition.
PositionIn(seq, x) == CHOOSE i \in DOMAIN seq : seq[i] = x

RankingCall == last.op \in {"findNewSection", "findNewSection_core"}

(***************************************************************************)
(* C1.  The ranking findNewSection returns is sorted by descending number  *)
(* of eligible students, and slots with the same number appear in          *)
(* ascending slot-label order.                                             *)
(***************************************************************************)
C1_RankingSorted ==
    (RankingCall /\ Ok(last.out)) =>
        \A i, j \in DOMAIN last.out.val :
            i < j => \/ Len(last.out.val[i][2]) > Len(last.out.val[j][2])
                     \/ /\ Len(last.out.val[i][2]) = Len(last.out.val[j][2])
                        /\ StrLess(last.out.val[i][1], last.out.val[j][1])

(***************************************************************************)
(* C2.  proposeSections returns exactly the entries of the ranking with at *)
(* least min_students eligible students, in ranking order, and raises      *)
(* ThresholdNotMetError exactly when the ranking exists and no entry       *)
(* reaches min_students.                                                   *)
(***************************************************************************)
C2_ProposeSectionsFilters ==
    last.op = "proposeSections" =>
        LET ranking == findNewSection(df_courses, schedule, last.course)
            kept == SelectSeq(ranking.val, LAMBDA e : Len(e[2]) >= last.min_students)
        IN  /\ Ok(ranking) => IF kept # << >> THEN last.out = Return(kept)
                              ELSE last.out = Raise("ThresholdNotMetError")
            /\ ~Ok(ranking) => last.out.tag \notin {"ok", "ThresholdNotMetError"}

\* A call that keeps some entries of the ranking and drops others.
C2_Witness ==
    /\ last.op = "proposeSections"
    /\ Ok(last.out)
    /\ Len(last.out.val) < Len(findNewSection(df_courses, schedule, last.course).val)

(***************************************************************************)
(* C3 as claimed.  In the ranking for a course, student s is listed under  *)
(* catalog slot k if and only if s has a roster row for the course and no  *)
(* meeting of s, in any course, overlaps k.                                *)
(***************************************************************************)
C3_ListedIffFree ==
    (last.op = "findNewSection" /\ Ok(last.out)) =>
        \A s \in Students, j \in DOMAIN schedule.blocks :
            Listed(last.out.val, s, schedule.blocks[j].slot)
                <=> (HasRow(s, last.course) /\ FreeFor(s, schedule.blocks[j]))

(***************************************************************************)
(* C3 amended.  Student s is listed under catalog slot k if and only if    *)
(* the label of k is not empty, s has a roster row for the course and no   *)
(* meeting of s, in any course, overlaps k.                                *)
(***************************************************************************)
C3_ListedIffFreeAndLabelled ==
    (last.op = "findNewSection" /\ Ok(last.out)) =>
        \A s \in Students, j \in DOMAIN schedule.blocks :
            Listed(last.out.val, s, schedule.blocks[j].slot)
                <=> /\ schedule.blocks[j].slot # ""
                    /\ HasRow(s, last.course)
                    /\ FreeFor(s, schedule.blocks[j])

\* A student kept off a slot by a meeting of another course only, while listed
\* under another slot.
C3_Witness ==
    /\ last.op = "findNewSection"
    /\ Ok(last.out)
    /\ \E s \in Enrolled(last.course), j \in DOMAIN schedule.blocks :
          /\ schedule.blocks[j].slot # ""
          /\ ~Listed(last.out.val, s, schedule.blocks[j].slot)
          /\ \A i \in DOMAIN df_courses :
                (df_courses[i].id = s /\ Overlaps(df_courses[i], schedule.blocks[j]))
                    => df_courses[i].crs_cde # last.course
          /\ \E k \in CatalogLabels : Listed(last.out.val, s, k)

(***************************************************************************)
(* C4.  For every student, the busy slots and the free slots are disjoint, *)
(* together they are all the slots of the catalog, and the free slots are  *)
(* listed in ascending slot-label order.                                   *)
(***************************************************************************)
C4_BusyFreePartition ==
    (last.op = "getAvailability" /\ Ok(last.out)) =>
        \A i \in DOMAIN last.out.val :
            LET busy == Range(last.busy[i][2].val)
                free == last.out.val[i][2]
            IN  /\ last.busy[i][1] = last.out.val[i][1]
                /\ busy \cap Range(free) = {}
                /\ busy \cup Range(free) = CatalogLabels
                /\ \A a, b \in DOMAIN free : a < b => StrLess(free[a], free[b])

\* A student with a busy slot and two free slots that the catalog file lists in
\* descending order.
C4_Witness ==
    /\ last.op = "getAvailability"
    /\ Ok(last.out)
    /\ \E i \in DOMAIN last.out.val :
          /\ last.busy[i][2].val # << >>
          /\ \E a, b \in DOMAIN schedule.blocks :
                /\ a < b
                /\ StrLess(schedule.blocks[b].slot, schedule.blocks[a].slot)
                /\ {schedule.blocks[a].slot, schedule.blocks[b].slot}
                       \subseteq Range(last.out.val[i][2])

(***************************************************************************)
(* C5.  With well-formed times, courseOverlapSlot is true if and only if   *)
(* the meeting and the slot share a weekday, the meeting starts no later   *)
(* than the slot ends and ends no earlier than the slot starts; touching   *)
(* boundaries overlap.                                                     *)
(***************************************************************************)
C5_OverlapInclusive ==
    (last.op = "courseOverlapSlot" /\ TimesWellFormed(last.course_row, last.slot)) =>
        last.out = Return(/\ MeetingDays(last.course_row) \cap last.slot.days # {}
                          /\ ClockTime(last.course_row.begin_time) <= ClockTime(last.slot.end_time)
                          /\ ClockTime(last.course_row.end_time) >= ClockTime(last.slot.start_time))

\* A meeting that ends exactly when the slot starts, on a shared day: an overlap.
C5_Witness ==
    /\ last.op = "courseOverlapSlot"
    /\ TimesWellFormed(last.course_row, last.slot)
    /\ MeetingDays(last.course_row) \cap last.slot.days # {}
    /\ ClockTime(last.course_row.end_time) = ClockTime(last.slot.start_time)
    /\ ClockTime(last.course_row.begin_time) < ClockTime(last.course_row.end_time)
    /\ last.out = Return(TRUE)

(***************************************************************************)
(* C6.  When a row of a student enrolled in the target course has a        *)
(* malformed begin or end time, the ranking and the proposal abort with    *)
(* FormatError: the row is not skipped and nothing is returned.            *)
(***************************************************************************)
C6_MalformedTimeAborts ==
    ((RankingCall \/ last.op = "proposeSections") /\ MalformedRowIn(last.course)) =>
        last.out.tag = "FormatError"

(***************************************************************************)
(* C7.  For a course without roster rows, the ranking and the proposal     *)
(* fail with NotFoundError; nothing is returned, None included.            *)
(***************************************************************************)
C7_UnknownCourseRaises ==
    ((RankingCall \/ last.op = "proposeSections") /\ Enrolled(last.course) = {}) =>
        last.out.tag = "NotFoundError"

(***************************************************************************)
(* C8.  For a course with enrolled students (whose time cells are not      *)
(* malformed), the ranking fails with NoCandidatesError exactly when every *)
(* catalog slot is busy for every enrolled student, and is a non-empty     *)
(* ranking otherwise; it fails with NoCandidatesError in no other case.    *)
(***************************************************************************)
C8_NoCandidatesExactly ==
    RankingCall =>
        LET allBusy == \A s \in Enrolled(last.course), j \in DOMAIN schedule.blocks :
                           ~FreeFor(s, schedule.blocks[j])
        IN  /\ last.out.tag = "NoCandidatesError" => Enrolled(last.course) # {}
            /\ (Enrolled(last.course) # {} /\ ~MalformedRowIn(last.course)) =>
                  IF allBusy THEN last.out.tag = "NoCandidatesError"
                  ELSE Ok(last.out) /\ last.out.val # << >>

(***************************************************************************)
(* C9.  The split keeps in remaining the students of the section that are  *)
(* not shifted, in the section's order, and shifted is the list to shift   *)
(* as given; the two are disjoint, together they are the section when      *)
(* every shifted student belongs to it, and shifted ids outside the        *)
(* section raise nothing and leave remaining as it would be without them.  *)
(***************************************************************************)
C9_PartitionSection ==
    (last.op = "proposeShifts" /\ last.students_to_shift # << >>) =>
        /\ Ok(last.out)
        /\ LET remaining == last.out.val.remaining
               shifted   == last.out.val.shifted
               original  == last.original_students
           IN  /\ shifted = last.students_to_shift
               /\ Range(remaining) = Range(original) \ Range(shifted)
               /\ \A a, b \in DOMAIN remaining :
                     a < b => PositionIn(original, remaining[a]) < PositionIn(original, remaining[b])
               /\ Range(remaining) \cap Range(shifted) = {}
               /\ Range(shifted) \subseteq Range(original)
                     => Range(remaining) \cup Range(shifted) = Range(original)

\* A split where one shifted id is of the section and another is not, and a
\* student remains.
C9_Witness ==
    /\ last.op = "proposeShifts"
    /\ Ok(last.out)
    /\ Range(last.students_to_shift) \cap Range(last.original_students) # {}
    /\ Range(last.students_to_shift) \ Range(last.original_students) # {}
    /\ last.out.val.remaining # << >>

(***************************************************************************)
(* C10.  proposeShifts returns the list stored under the selected slot     *)
(* when the slot is a key of the mapping, and the empty list, without an   *)
(* error, when it is not.                                                  *)
(***************************************************************************)
C10_SelectShift ==
    last.op = "proposeShifts" =>
        IF \E i \in DOMAIN last.suggested_slots : last.suggested_slots[i][1] = last.selected_slot
        THEN \E i \in DOMAIN last.suggested_slots :
                /\ last.suggested_slots[i][1] = last.selected_slot
                /\ last.students_to_shift = last.suggested_slots[i][2]
        ELSE last.students_to_shift = << >>

\* A slot that is no key of a mapping with two other keys.
C10_Witness ==
    /\ last.op = "proposeShifts"
    /\ Len(last.suggested_slots) = 2
    /\ \A i \in DOMAIN last.suggested_slots : last.suggested_slots[i][1] # last.selected_slot
    /\ last.students_to_shift = << >>
    /\ last.out = ReturnNone

(***************************************************************************)
(* Vocabulary of the current-slot properties.                              *)
(***************************************************************************)
\* The roster rows of course c, in file order.
RowsOf(c) == SelectSeq(df_courses, LAMBDA r : r.crs_cde = c)

\* The positions of the catalog blocks that the meeting row overlaps.
OverlappingBlocks(row) == {j \in DOMAIN schedule.blocks : Overlaps(row, schedule.blocks[j])}

\* A meeting that is not scheduled: no weekday flag, or no begin or end time.
Unscheduled(row) == MeetingDays(row) = {} \/ row.begin_time = << >> \/ row.end_time = << >>

\* The first roster row of course c has a time cell that is filled in but is
\* no time (such a row is a format error, not a question of overlap).
FirstRowMalformed(c) ==
    /\ RowsOf(c) # << >>
    /\ MalformedTime(RowsOf(c)[1].begin_time) \/ MalformedTime(RowsOf(c)[1].end_time)

\* C12: currentSlot(course) returns the first slot of the catalog, in catalog
\* order, that overlaps the course's meeting pattern (the first roster row of
\* the course), and fails with NotFoundError when the course has no roster
\* rows or when no catalog slot overlaps the pattern.
C12_CurrentSlotFirstOverlap ==
    (last.op = "getCourseSlot" /\ ~FirstRowMalformed(last.course)) =>
        IF RowsOf(last.course) = << >> THEN last.out = Raise("NotFoundError")
        ELSE LET hits == OverlappingBlocks(RowsOf(last.course)[1])
             IN  IF hits = {} THEN last.out = Raise("NotFoundError")
                 ELSE last.out = Return(schedule.blocks[CHOOSE j \in hits :
                                                           \A k \in hits : j <= k].slot)

\* C13: a meeting row with no weekday flag, or with a missing begin or end
\* time, makes no catalog slot busy and causes no error, in busySlots and in
\* currentSlot alike: when every row of the students of the course is such a
\* row, getAvailability returns and every busy list is empty; when the first
\* row of the course is such a row, currentSlot finds no overlapping slot and
\* fails with NotFoundError, never with a format error.
C13_UnscheduledRowIgnored ==
    /\ (/\ last.op = "getAvailability"
        /\ Enrolled(last.course) # {}
        /\ \A i \in DOMAIN df_courses :
               HasRow(df_courses[i].id, last.course) => Unscheduled(df_courses[i]))
       => /\ Ok(last.out)
          /\ \A i \in DOMAIN last.busy : last.busy[i][2] = Return(<< >>)
    /\ (/\ last.op = "getCourseSlot"
        /\ RowsOf(last.course) # << >>
        /\ Unscheduled(RowsOf(last.course)[1])
        /\ ~FirstRowMalformed(last.course))
       => last.out = Raise("NotFoundError")

\* C14: after the load, no engine operation (getCourses,
\* getStudentsInSection, getCourseSlot, getAvailability, findNewSection,
\* proposeSections, proposeShifts) changes the loaded roster or catalog: every
\* step of the session leaves df_courses and schedule as they were.
C14_LoadedDataUnchanged == [][df_courses' = df_courses /\ schedule' = schedule]_vars

\* A proposal was computed and a slot selected on a roster of two rows and a
\* catalog with blocks.
C14_Witness ==
    /\ last.op = "proposeShifts"
    /\ Len(df_courses) >= 2
    /\ schedule.blocks # << >>

\* Every roster row of course c carries the same weekday flags and the same
\* well-formed begin and end times.
UniformSection(c) ==
    /\ RowsOf(c) # << >>
    /\ WellFormedTime(RowsOf(c)[1].begin_time) /\ WellFormedTime(RowsOf(c)[1].end_time)
    /\ \A i \in DOMAIN RowsOf(c) :
          /\ \A f \in {"M", "T", "W", "R", "F"} : RowsOf(c)[i][f] = RowsOf(c)[1][f]
          /\ RowsOf(c)[i].begin_time = RowsOf(c)[1].begin_time
          /\ RowsOf(c)[i].end_time = RowsOf(c)[1].end_time

\* A ranking or a proposal was returned for last.course.
CandidatesReturned == last.op \in {"findNewSection", "proposeSections"} /\ Ok(last.out)

\* C15: when every roster row of the target course carries the same weekday
\* flags and the same well-formed begin and end times, the slot that
\* getCourseSlot returns for the course is never a key of the output of
\* findNewSection or proposeSections for that course.
C15_CurrentSlotNotCandidate ==
    (CandidatesReturned /\ UniformSection(last.course)) =>
        LET current_slot == getCourseSlot(df_courses, schedule, last.course)
        IN  Ok(current_slot) => \A e \in Range(last.out.val) : e[1] # current_slot.val

\* Two students in a uniform section that has a current slot, and a ranking
\* with a candidate slot for both.
C15_Witness ==
    /\ last.op = "findNewSection" /\ Ok(last.out)
    /\ UniformSection(last.course)
    /\ Cardinality(Enrolled(last.course)) = 2
    /\ Ok(getCourseSlot(df_courses, schedule, last.course))
    /\ \E e \in Range(last.out.val) : Len(e[2]) = 2

\* The list has no repeated member.
DuplicateFree(seq) == \A i, j \in DOMAIN seq : seq[i] = seq[j] => i = j

\* The members of list stand in the same relative order as in reference.
SameRelativeOrder(list, reference) ==
    \A i, j \in DOMAIN list :
        i < j => PositionIn(reference, list[i]) < PositionIn(reference, list[j])

\* C16: every entry of the output of findNewSection, and of the mapping of
\* proposeSections, has a slot label that belongs to the catalog and appears
\* only once in the output, and carries a non-empty, duplicate-free student
\* list whose members all belong to getStudentsInSection(course) and stand in
\* the same relative order as in getStudentsInSection(course).
C16_EntriesWellFormed ==
    CandidatesReturned =>
        LET students == getStudentsInSection(df_courses, last.course)
            entries  == last.out.val
        IN  /\ Ok(students)
            /\ \A i \in DOMAIN entries :
                  /\ entries[i][1] \in CatalogLabels
                  /\ \A j \in DOMAIN entries : entries[j][1] = entries[i][1] => j = i
                  /\ entries[i][2] # << >>
                  /\ DuplicateFree(entries[i][2])
                  /\ Range(entries[i][2]) \subseteq Range(students.val)
                  /\ SameRelativeOrder(entries[i][2], students.val)

\* A proposal with two slots, one of them with both students of the course,
\* the student that comes second in the alphabet standing first in the roster.
C16_Witness ==
    /\ last.op = "proposeSections" /\ Ok(last.out)
    /\ Len(last.out.val) = 2
    /\ \E e \in Range(last.out.val) : e[2] = <<"s2", "s1">>

====
